---- MODULE Spec2Model ----
(***************************************************************************)
(* The Goose rarity tools.                                                 *)
(*                                                                         *)
(* Spec: incremental dataset synchronisation, syncDatasetWithApi           *)
(* (src/web/src/lib/api.ts) and its CLI twin syncDatasetFromApi            *)
(* (src/goose_rarity.js), with the caller that persists the result.  One   *)
(* sync call is modelled step by step: each action is the code that runs   *)
(* between two await points of the single-threaded event loop.             *)
(*                                                                         *)
(* SpecScore: computeRarityScores (src/web/src/lib/rarity.ts) applied to   *)
(* bounded datasets.                                                       *)
(*                                                                         *)
(* SpecEnv: the memoised dataset of ELGOOSE_DATASET_JSON,                  *)
(* getDatasetFromEnv and resetEnvDatasetCache (src/goose_rarity.js).       *)
(***************************************************************************)
EXTENDS Integers, Sequences, FiniteSets, TLC

\* ------------------------------------------------------------------------
\* Bounds of the model
\* ------------------------------------------------------------------------
MaxShowId == 2
MaxRemoteShows == 2
MaxCachedShows == 2
MaxCachedEntries == 2
PoolShows == 6
MaxRuns == 2
MaxScoreShows == 2
MaxScoreEntries == 3
MaxTimeline == 3
MaxDay == 4

\* ------------------------------------------------------------------------
\* Program constants
\* ------------------------------------------------------------------------
SETLIST_FETCH_CONCURRENCY == 5

\* ------------------------------------------------------------------------
\* Values
\* ------------------------------------------------------------------------
Min(a, b) == IF a <= b THEN a ELSE b
Max(a, b) == IF a >= b THEN a ELSE b

SeqsUpTo(S, n) == UNION {[1..k -> S] : k \in 0..n}

\* A raw show_id field as it arrives in JSON: a number, a string holding the
\* decimal numeral of n (possibly padded with blanks), or no field at all.
NumberId(n) == [kind |-> "number", n |-> n]
NumeralId(n) == [kind |-> "numeral", n |-> n]
MissingId == [kind |-> "missing", n |-> 0]

\* undefined, as returned by toNumericId
Undefined == 0

toNumericId(value) ==
    CASE value.kind = "number" -> value.n
      [] value.kind = "numeral" -> value.n
      [] OTHER -> Undefined

\* A show record: its raw show_id and a venue name that tells the copies of
\* one show apart (the cached copy, the remote copy).
ShowRecord(id, venue) == [show_id |-> id, venuename |-> venue]

\* A setlist entry: a JSON object with an optional uniqueid (0: absent) and a
\* show_id, or the JSON value null.
KeyedEntry(s, u) == [kind |-> "object", uniqueid |-> u, show_id |-> NumberId(s)]
UnkeyedEntry(s) == [kind |-> "object", uniqueid |-> 0, show_id |-> NumberId(s)]
NullEntry == [kind |-> "null", uniqueid |-> 0, show_id |-> MissingId]

UndefinedKey == [explicit |-> 0, composite |-> NullEntry]

\* The explicit unique id when the entry has one, else the composite key,
\* which ends in the stable serialisation of the whole entry.
createSetlistEntryKey(entry) ==
    IF entry.kind # "object" THEN UndefinedKey
    ELSE IF entry.uniqueid # 0
         THEN [explicit |-> entry.uniqueid, composite |-> NullEntry]
         ELSE [explicit |-> 0, composite |-> entry]

\* ------------------------------------------------------------------------
\* State
\* ------------------------------------------------------------------------
VARIABLES
    existingShows,      \* shows array of the dataset handed to the sync
    arrays,             \* the setlist arrays on the heap, by name
    combinedRef,        \* the array combinedSetlists refers to
    remoteShows,        \* what the remote answers to "list all shows"
    profile,            \* what the remote answers to "setlist of show n"
    pc,                 \* where the sync call is
    existingShowById,
    mergedShows,
    newShowRecords,
    existingSetlistKeys,
    newEntriesByShow,
    index,
    errors,
    completed,
    workers,            \* per worker: awaiting a fetch, or returned
    result,             \* what the call settled with
    run,                \* number of the sync call, 1..MaxRuns
    inputAtStart,       \* history: the input arrays when the call started
    fetchFailed,        \* history: some setlist fetch of this call failed
    firstCompleted,     \* history: the candidate whose fetch settled first
    progress,           \* the phases handed to onProgress by this call, in order
    persisted,          \* the persisted cache: no dataset, or one
    persistedAtStart,   \* history: the persisted cache when the call started
    claimed,            \* history: the candidate indexes claimed, in claim order
    settled,            \* history: the candidate indexes whose fetch has settled
    appDataset,         \* the dashboard's in-memory dataset: none, or one
    clear,              \* where the Clear Cache handler is
    dataset,            \* the dataset handed to computeRarityScores
    computed,           \* what the latest computeRarityScores call returned
    previous,           \* what the call before it returned
    envPayload,         \* process.env.ELGOOSE_DATASET_JSON
    envDatasetLoaded,
    envDatasetValue,
    envDatasetCacheKey,
    lastCall,           \* the latest getDatasetFromEnv call and its outcome
    cliInput,           \* what ensureDataset hands to runCli, and the --year option
    cliOutcome,         \* what the runCli call did, once it has returned
    timeline,           \* showsWithSetlistDates handed to showsSince
    since               \* the latest showsSince call and what it returned

syncVars == <<existingShows, arrays, combinedRef, remoteShows, profile, pc,
              existingShowById, mergedShows, newShowRecords, existingSetlistKeys,
              newEntriesByShow, index, errors, completed, workers, result, run,
              inputAtStart, fetchFailed, firstCompleted, progress, persisted,
              persistedAtStart, claimed, settled, appDataset, clear>>

scoreVars == <<dataset, computed, previous>>

envVars == <<envPayload, envDatasetLoaded, envDatasetValue, envDatasetCacheKey,
             lastCall>>

cliVars == <<cliInput, cliOutcome>>

sinceVars == <<timeline, since>>

vars == <<syncVars, scoreVars, envVars, cliVars, sinceVars>>

existingSetlists == arrays["existingSetlists"]
combinedSetlists == arrays[combinedRef]


\* ------------------------------------------------------------------------
\* The remote source
\* ------------------------------------------------------------------------
\* The answer of "list setlist entries for show id s".  The remote is one of
\* three kinds: every entry has its own unique id; every show's entry carries
\* the same unique id 1; entries have no unique id, come twice, and a null
\* element follows them.
Profiles == {"distinct", "shared", "repeated"}

SetlistResponse(p, s) ==
    CASE p = "distinct" -> <<KeyedEntry(s, s), UnkeyedEntry(s)>>
      [] p = "shared" -> <<KeyedEntry(s, 1)>>
      [] OTHER -> <<UnkeyedEntry(s), UnkeyedEntry(s), NullEntry>>

RemoteShowRecords ==
    {ShowRecord(NumberId(i), "remote") : i \in 1..MaxShowId}
        \cup {ShowRecord(NumeralId(1), "remote"), ShowRecord(MissingId, "remote")}

CachedShowRecords ==
    {ShowRecord(NumberId(i), "cached") : i \in 1..MaxShowId}
        \cup {ShowRecord(MissingId, "cached")}

\* The cached entries belong to a show the remote no longer lists; they
\* carry a unique id and none in turn.
ArchivedShowId == MaxShowId + 1

CachedSetlist(k) ==
    [i \in 1..k |-> IF i % 2 = 1 THEN KeyedEntry(ArchivedShowId, (i + 1) \div 2)
                    ELSE UnkeyedEntry(ArchivedShowId)]

\* ------------------------------------------------------------------------
\* Steps of syncDatasetWithApi
\* ------------------------------------------------------------------------
\* existingShowById: the first cached record of every numeric show id.
BuildExistingShowById(shows) ==
    LET ids == {toNumericId(shows[i].show_id) : i \in 1..Len(shows)} \ {Undefined}
        first(id) == CHOOSE i \in 1..Len(shows) :
                        /\ toNumericId(shows[i].show_id) = id
                        /\ \A j \in 1..(i - 1) : toNumericId(shows[j].show_id) # id
    IN  [id \in ids |-> shows[first(id)]]

IsKnownShowNever(byId, rawShow) == FALSE
IsKnownShow(byId, rawShow) ==
    /\ toNumericId(rawShow.show_id) # Undefined
    /\ toNumericId(rawShow.show_id) \in DOMAIN byId

\* The record pushed to mergedShows for one remote show.
MergeRemoteShowRaw(byId, rawShow) == rawShow
MergeRemoteShow(byId, rawShow) ==
    IF IsKnownShow(byId, rawShow) THEN byId[toNumericId(rawShow.show_id)] ELSE rawShow

\* A remote show is a new-show candidate when it has a numeric id that the
\* cache does not hold.
IsNewShowAlways(byId, rawShow) == toNumericId(rawShow.show_id) # Undefined
IsNewShow(byId, rawShow) ==
    /\ ~IsKnownShow(byId, rawShow)
    /\ toNumericId(rawShow.show_id) # Undefined

MergeLatestShows(latest, byId) ==
    [i \in 1..Len(latest) |-> MergeRemoteShow(byId, latest[i])]

RECURSIVE CollectNewShows(_, _, _)
CollectNewShows(latest, byId, i) ==
    IF i > Len(latest) THEN <<>>
    ELSE (IF IsNewShow(byId, latest[i])
          THEN <<[id |-> toNumericId(latest[i].show_id), record |-> latest[i]]>>
          ELSE <<>>) \o CollectNewShows(latest, byId, i + 1)

\* The loop that pushes the cached shows no merged show has the id of.
PreserveCachedShowsNone(merged, existing, i) == merged
RECURSIVE PreserveCachedShows(_, _, _)
PreserveCachedShows(merged, existing, i) ==
    IF i > Len(existing) THEN merged
    ELSE LET showId == toNumericId(existing[i].show_id)
             found == \E k \in 1..Len(merged) : toNumericId(merged[k].show_id) = showId
         IN  PreserveCachedShows(
                 IF showId # Undefined /\ ~found THEN Append(merged, existing[i]) ELSE merged,
                 existing, i + 1)

CollectSetlistKeys(setlists) ==
    {createSetlistEntryKey(setlists[i]) : i \in 1..Len(setlists)} \ {UndefinedKey}

\* [...existingSetlists]: the name of the array the spread evaluates to.
SpreadAlias(name) == name
SpreadCopyOf(name) == "combinedSetlists"

\* The worker's loop over one response: entries whose key is already in the
\* set are skipped, the others are kept and their key added.
RECURSIVE FilterEntries(_, _, _)
FilterEntries(entries, keys, filtered) ==
    IF entries = <<>> THEN [filtered |-> filtered, keys |-> keys]
    ELSE LET entry == Head(entries)
             key == createSetlistEntryKey(entry)
         IN  IF key # UndefinedKey /\ key \in keys
             THEN FilterEntries(Tail(entries), keys, filtered)
             ELSE FilterEntries(Tail(entries),
                                IF key # UndefinedKey THEN keys \cup {key} ELSE keys,
                                Append(filtered, entry))

MapSet(map, id, value) ==
    [k \in DOMAIN map \cup {id} |-> IF k = id THEN value ELSE map[k]]

RecordErrorSwallowed(errs, id) == errs
RecordError(errs, id) == Append(errs, id)

WorkerPerCandidate(n) == Max(1, n)
WorkerCount(n) == Min(SETLIST_FETCH_CONCURRENCY, Max(1, n))

\* The synchronous part of worker(): claim the next index and start its
\* fetch, or return when the cursor is past the end.
ClaimNextFirst(idx, n) ==
    IF idx < n THEN [status |-> "awaiting", currentIndex |-> 1]
    ELSE [status |-> "returned", currentIndex |-> 0]
ClaimNext(idx, n) ==
    IF idx < n THEN [status |-> "awaiting", currentIndex |-> idx + 1]
    ELSE [status |-> "returned", currentIndex |-> 0]

\* The final pass over mergedShows that appends each show's new entries.
RECURSIVE AppendAdditionsFront(_, _, _)
AppendAdditionsFront(combined, merged, byShow) ==
    IF merged = <<>> THEN combined
    ELSE LET showId == toNumericId(Head(merged).show_id)
         IN  AppendAdditionsFront(
                 IF showId # Undefined /\ showId \in DOMAIN byShow /\ Len(byShow[showId]) > 0
                 THEN byShow[showId] \o combined ELSE combined,
                 Tail(merged), byShow)

RECURSIVE AppendAdditions(_, _, _)
AppendAdditions(combined, merged, byShow) ==
    IF merged = <<>> THEN combined
    ELSE LET showId == toNumericId(Head(merged).show_id)
         IN  AppendAdditions(
                 IF showId # Undefined /\ showId \in DOMAIN byShow /\ Len(byShow[showId]) > 0
                 THEN combined \o byShow[showId] ELSE combined,
                 Tail(merged), byShow)

RECURSIVE SumLengths(_, _)
SumLengths(map, ids) ==
    IF ids = {} THEN 0
    ELSE LET id == CHOOSE x \in ids : TRUE
         IN  Len(map[id]) + SumLengths(map, ids \ {id})

AddedSetlistCount(byShow) == SumLengths(byShow, DOMAIN byShow)

HasErrors(errs) == Len(errs) > 0

Pending == [status |-> "pending", dataset |-> <<>>, addedShowCount |-> 0, addedSetlistCount |-> 0]
Rejected == [status |-> "rejected", dataset |-> <<>>, addedShowCount |-> 0, addedSetlistCount |-> 0]
Resolved(shows, setlists, nShows, nEntries) ==
    [status |-> "resolved",
     dataset |-> <<[shows |-> shows, setlists |-> setlists]>>,
     addedShowCount |-> nShows, addedSetlistCount |-> nEntries]

NoWorkers == [w \in {} |-> ClaimNext(0, 0)]

\* The indexes the workers have claimed when Promise.all is awaited, in
\* the order the workers were started.
StartedFetches(started) ==
    LET IsAwaiting(worker) == worker.status = "awaiting"
        awaiting == SelectSeq(started, IsAwaiting)
    IN  [k \in 1..Len(awaiting) |-> awaiting[k].currentIndex]

\* Where the Clear Cache handler is, for the loads started around it: idle;
\* deleting, while clearDataset() is awaited; behindSave, while it is awaited
\* and a write of saveDataset() was requested before the delete; superseded,
\* when a load was started during that await; done, when the handler has
\* completed and no load was started since the click.  The store serves its
\* requests in the order they were made.
DeleteIsFirst(state) == state \in {"deleting", "superseded"}

\* const current = dataset ?? null, which the sync reads as no shows and no
\* setlists.
CurrentDataset(inMemory) ==
    IF inMemory = <<>> THEN [shows |-> <<>>, setlists |-> <<>>] ELSE inMemory[1]
EmptyMap == [k \in {} |-> <<>>]

\* The phases emitted when the call starts, when the show list has arrived,
\* when the workers are about to start, when one fetch has settled, and on
\* the two paths that resolve.
StartedEvents == <<"shows">>
ShowsFetchedEvents == <<"shows">>
DownloadingEvents == <<"setlists">>
FetchSettledEvents == <<"setlists">>
UpToDateEvents == <<"complete">>
FinishedEventsCompleteFirst == <<"complete", "setlists">>
FinishedEvents == <<"setlists", "complete">>

\* The persisted cache after saveDataset(next), and after the caller's catch
\* block has handled a rejected sync.
SavedDataset(next) == <<next>>
PersistedAfterCatchCleared(cache) == <<>>
PersistedAfterCatch(cache) == cache

\* The cache a session starts with: none when there is nothing cached.
LoadedDataset(shows, setlists) ==
    IF shows = <<>> /\ setlists = <<>> THEN <<>>
    ELSE <<[shows |-> shows, setlists |-> setlists]>>

\* ------------------------------------------------------------------------
\* computeRarityScores (src/web/src/lib/rarity.ts): values
\* ------------------------------------------------------------------------
\* The result keeps two locals of the call next to the fields of the source:
\* the denominator of a song and the ftpBonus of an entry.
\* Numbers are fixed point.  A normalised rarity, a show score, a percentage
\* are counted in 1/Unit; a raw rarity is counted in 1/RawUnit, which every
\* play count of the bounded datasets divides, so that raw rarities are exact.
Unit == 100 * 100
RawUnit == 100 * 2 * 60

F_CAP == 3
MIN_NORMALIZED_RARITY == Unit \div 20
MAX_NORMALIZED_RARITY == Unit
MIN_SHOW_SCORE == Unit \div 1000
FTP_BONUS_ORIGINAL == RawUnit \div 10
FTP_BONUS_COVER == RawUnit \div 20

\* Dates are days since 1970-01-01; FIRST_PLAY_CUTOFF is 2015-01-01.
FIRST_PLAY_CUTOFF == 16436
NoDate == 0

\* null, for a numeric field and for a text field
Null == 0
NoText == ""

ShowDates == {"2014-12-31", "2015-01-01", "2015-01-02"}

\* new Date(value + "T00:00:00Z"), undefined for a missing or malformed date
parseShowDate(value) ==
    CASE value = "2014-12-30" -> FIRST_PLAY_CUTOFF - 2
      [] value = "2014-12-31" -> FIRST_PLAY_CUTOFF - 1
      [] value = "2015-01-01" -> FIRST_PLAY_CUTOFF
      [] value = "2015-01-02" -> FIRST_PLAY_CUTOFF + 1
      [] OTHER -> NoDate

toISOString(date) ==
    CASE date = FIRST_PLAY_CUTOFF - 2 -> "2014-12-30T00:00:00.000Z"
      [] date = FIRST_PLAY_CUTOFF - 1 -> "2014-12-31T00:00:00.000Z"
      [] date = FIRST_PLAY_CUTOFF -> "2015-01-01T00:00:00.000Z"
      [] date = FIRST_PLAY_CUTOFF + 1 -> "2015-01-02T00:00:00.000Z"
      [] OTHER -> NoText

toLowerCase(text) ==
    CASE text = "Arcadia" -> "arcadia"
      [] text = "Creep" -> "creep"
      [] OTHER -> text

Show(id, date) == [show_id |-> id, showdate |-> date]

\* Setlist entries: an original with a song id, a slug and a name; a cover
\* known by its name only; an entry that names no song.
OriginalEntry(show) ==
    [song_id |-> 1, slug |-> "arcadia", songname |-> "Arcadia", show_id |-> show,
     isoriginal |-> "1", original_artist |-> NoText, showdate |-> NoText,
     uniqueid |-> Null, position |-> Null]
CoverEntry(show) ==
    [song_id |-> Null, slug |-> NoText, songname |-> "Creep", show_id |-> show,
     isoriginal |-> NoText, original_artist |-> "Radiohead", showdate |-> NoText,
     uniqueid |-> Null, position |-> Null]
AnonymousEntry(show) ==
    [song_id |-> Null, slug |-> NoText, songname |-> NoText, show_id |-> show,
     isoriginal |-> NoText, original_artist |-> NoText, showdate |-> NoText,
     uniqueid |-> Null, position |-> Null]

\* The original again, as the API sends it: with its uniqueid.
ArchivedUniqueId == 7
ArchivedEntry(show) == [OriginalEntry(show) EXCEPT !.uniqueid = ArchivedUniqueId]

normalizeIsOriginal(value) ==
    CASE value \in {"1", "true", "yes"} -> TRUE
      [] value \in {"0", "false", "no"} -> FALSE
      [] OTHER -> value # NoText

isCover(entry) ==
    IF entry.isoriginal # NoText THEN ~normalizeIsOriginal(entry.isoriginal)
    ELSE entry.original_artist # NoText

\* The song key, given the number Math.random() returns if it is called.
IdKey(n) == [kind |-> "id", n |-> n, text |-> NoText, random |-> 0]
SlugKey(text) == [kind |-> "slug", n |-> 0, text |-> text, random |-> 0]
NameKey(text) == [kind |-> "name", n |-> 0, text |-> text, random |-> 0]
UniqueKey(show) == [kind |-> "unique", n |-> show, text |-> NoText, random |-> 0]
RandomKey(r) == [kind |-> "unique", n |-> 0, text |-> NoText, random |-> r]

songKey(entry, random) ==
    IF entry.song_id # Null THEN IdKey(entry.song_id)
    ELSE IF entry.slug # NoText THEN SlugKey(entry.slug)
    ELSE IF entry.songname # NoText THEN NameKey(toLowerCase(entry.songname))
    ELSE IF entry.show_id # Null THEN UniqueKey(entry.show_id)
    ELSE RandomKey(random)

CallsRandom(entry) ==
    /\ entry.song_id = Null
    /\ entry.slug = NoText
    /\ entry.songname = NoText
    /\ entry.show_id = Null

\* What the successive Math.random() calls of one run return: the same
\* number every time, or a new number every time.
RandomStreams == {"constant", "counting"}

RandomDraw(stream, k) == IF stream = "constant" THEN 1 ELSE k

\* The key under which computeRarityScores files the entry at index.
createRarityEntryKey(entry, idx) ==
    IF entry.uniqueid # Null
    THEN [uid |-> entry.uniqueid, show |-> 0, pos |-> "", at |-> 0, name |-> ""]
    ELSE [uid |-> 0,
          show |-> entry.show_id,
          pos |-> IF entry.position # Null THEN "pos" ELSE "idx",
          at |-> IF entry.position # Null THEN entry.position ELSE idx,
          name |-> IF entry.slug # NoText THEN toLowerCase(entry.slug)
                   ELSE IF entry.songname # NoText THEN toLowerCase(entry.songname)
                   ELSE "unknown"]

\* ------------------------------------------------------------------------
\* computeRarityScores: steps
\* ------------------------------------------------------------------------
Indices(seq) == 1..Len(seq)

\* setlistCounts.get(showId) ?? 0
SetlistCountAny(setlists, showId) == Len(setlists)
SetlistCount(setlists, showId) ==
    Cardinality({i \in Indices(setlists) :
                    setlists[i].show_id # Null /\ setlists[i].show_id = showId})

\* showDateMap.get(showId): the date of the last show of that id with a date
ShowDateOf(shows, showId) ==
    LET dated == {i \in Indices(shows) :
                     shows[i].show_id = showId /\ parseShowDate(shows[i].showdate) # NoDate}
    IN  IF dated = {} THEN NoDate
        ELSE parseShowDate(shows[CHOOSE i \in dated : \A j \in dated : j <= i].showdate)

RECURSIVE InsertSorted(_, _)
InsertSorted(sorted, value) ==
    IF sorted = <<>> THEN <<value>>
    ELSE IF value < Head(sorted) THEN <<value>> \o sorted
    ELSE <<Head(sorted)>> \o InsertSorted(Tail(sorted), value)

\* showsWithSetlistDates: the dates of the shows with entries, ascending
RECURSIVE ShowsWithSetlistDates(_, _, _)
ShowsWithSetlistDates(shows, setlists, i) ==
    IF i > Len(shows) THEN <<>>
    ELSE LET rest == ShowsWithSetlistDates(shows, setlists, i + 1)
             date == parseShowDate(shows[i].showdate)
         IN  IF SetlistCount(setlists, shows[i].show_id) = 0 \/ date = NoDate THEN rest
             ELSE InsertSorted(rest, date)

RECURSIVE LowerBound(_, _, _, _)
LowerBound(sortedDates, target, left, right) ==
    IF left >= right THEN left
    ELSE LET mid == (left + right) \div 2
         IN  IF sortedDates[mid + 1] >= target
             THEN LowerBound(sortedDates, target, left, mid)
             ELSE LowerBound(sortedDates, target, mid + 1, right)

showsSinceBefore(date, sortedDates, totalEligible) ==
    IF totalEligible = 0 THEN 0
    ELSE IF date = NoDate THEN totalEligible
    ELSE LowerBound(sortedDates, date, 0, Len(sortedDates))
showsSince(date, sortedDates, totalEligible) ==
    IF totalEligible = 0 THEN 0
    ELSE IF date = NoDate THEN totalEligible
    ELSE totalEligible - LowerBound(sortedDates, date, 0, Len(sortedDates))

EntryDate(entry, shows) ==
    LET own == parseShowDate(entry.showdate)
    IN  IF own # NoDate THEN own
        ELSE IF entry.show_id # Null THEN ShowDateOf(shows, entry.show_id)
        ELSE NoDate

Earliest(dates) ==
    IF dates = {} THEN NoDate ELSE CHOOSE d \in dates : \A e \in dates : d <= e

\* How many of the entries before index i draw a random number.
RandomCallsBefore(setlists, i) ==
    Cardinality({j \in 1..(i - 1) : CallsRandom(setlists[j])})

\* The keys of the first loop over the setlists, and of the second.
StatsKeys(setlists, stream) ==
    [i \in Indices(setlists) |->
        songKey(setlists[i], RandomDraw(stream, RandomCallsBefore(setlists, i) + 1))]

RarityKeys(setlists, stream) ==
    [i \in Indices(setlists) |->
        songKey(setlists[i],
                RandomDraw(stream, RandomCallsBefore(setlists, Len(setlists) + 1)
                                       + RandomCallsBefore(setlists, i) + 1))]

\* songStats and songMeta of one key, after the first loop.
SongStats(shows, setlists, keys, key) ==
    LET mine == {i \in Indices(setlists) : keys[i] = key}
        dates == {EntryDate(setlists[i], shows) : i \in mine} \ {NoDate}
        withId == {i \in mine : setlists[i].song_id # Null}
    IN  [showIds |-> {setlists[i].show_id : i \in mine} \ {Null},
         firstAppearance |-> Earliest(dates),
         firstEligibleDate |-> Earliest({d \in dates : d >= FIRST_PLAY_CUTOFF}),
         songId |-> IF withId = {} THEN Null
                    ELSE setlists[CHOOSE i \in withId : \A j \in withId : i <= j].song_id,
         coverCount |-> Cardinality({i \in mine : isCover(setlists[i])}),
         originalCount |-> Cardinality({i \in mine : ~isCover(setlists[i])})]

\* usageBySong of one key.
SongUsage(stats, sortedDates) ==
    LET plays == Max(Cardinality(stats.showIds), 1)
        denominator == Max(showsSince(stats.firstEligibleDate, sortedDates, Len(sortedDates)),
                           plays)
    IN  [plays |-> plays,
         denominator |-> denominator,
         percentage |-> IF denominator > 0 THEN (plays * Unit) \div denominator ELSE Unit,
         firstDate |-> IF stats.firstEligibleDate # NoDate THEN stats.firstEligibleDate
                       ELSE stats.firstAppearance]

NoUsage == [plays |-> 0, denominator |-> 0, percentage |-> 0, firstDate |-> NoDate]

\* min(1 / frequencyMetric, 1 / F_CAP), where frequencyMetric is
\* 100 * plays / denominator, or 100 for a key without usage.
BaseRarity(usage) ==
    IF usage.plays = 0 THEN Min(RawUnit \div 100, RawUnit \div F_CAP)
    ELSE Min((RawUnit * usage.denominator) \div (100 * usage.plays), RawUnit \div F_CAP)

\* Twice the cover factor 1 - W_C * isCover.
CoverFactor2(cover) == IF cover THEN 1 ELSE 2

FtpBonusAnyDate(entryDate, ftpEligibleDate, cover) ==
    IF entryDate # NoDate /\ ftpEligibleDate # NoDate
    THEN (IF cover THEN FTP_BONUS_COVER ELSE FTP_BONUS_ORIGINAL)
    ELSE 0
FtpBonus(entryDate, ftpEligibleDate, cover) ==
    IF entryDate # NoDate /\ ftpEligibleDate # NoDate /\ entryDate = ftpEligibleDate
    THEN (IF cover THEN FTP_BONUS_COVER ELSE FTP_BONUS_ORIGINAL)
    ELSE 0

NormalizeRawUnshifted(raw, minRaw, spread) ==
    IF spread > 0
    THEN MIN_NORMALIZED_RARITY
             + ((MAX_NORMALIZED_RARITY - MIN_NORMALIZED_RARITY) * raw) \div spread
    ELSE MAX_NORMALIZED_RARITY
NormalizeRaw(raw, minRaw, spread) ==
    IF spread > 0
    THEN MIN_NORMALIZED_RARITY
             + ((MAX_NORMALIZED_RARITY - MIN_NORMALIZED_RARITY) * (raw - minRaw)) \div spread
    ELSE MAX_NORMALIZED_RARITY

NormalizeScoreFlatZero(score, minScore, scoreSpread) ==
    IF scoreSpread > 0 THEN ((score - minScore) * Unit) \div scoreSpread ELSE 0
NormalizeScore(score, minScore, scoreSpread) ==
    IF scoreSpread > 0 THEN ((score - minScore) * Unit) \div scoreSpread ELSE Unit

\* Math.log1p(n), in 1/Unit
Log1p(n) ==
    CASE n = 0 -> 0
      [] n = 1 -> 6931
      [] n = 2 -> 10986
      [] n = 3 -> 13863
      [] n = 4 -> 16094
      [] n = 5 -> 17918
      [] n = 6 -> 19459
      [] n = 7 -> 20794
      [] OTHER -> 21972

\* 1 + Math.log1p(entries) * LENGTH_ATTENUATION
LengthMultiplier(entries) == Unit + Log1p(entries) \div 10

ShowRarityScore(total, entries) ==
    Max(((total \div entries) * LengthMultiplier(entries)) \div Unit, MIN_SHOW_SCORE)

RECURSIVE SumOver(_, _)
SumOver(f, S) ==
    IF S = {} THEN 0
    ELSE LET x == CHOOSE y \in S : TRUE IN f[x] + SumOver(f, S \ {x})

SeqMin(f) == CHOOSE v \in {f[i] : i \in DOMAIN f} : \A i \in DOMAIN f : v <= f[i]
SeqMax(f) == CHOOSE v \in {f[i] : i \in DOMAIN f} : \A i \in DOMAIN f : v >= f[i]

\* The shows pushed to skipped, and the shows pushed to scoreDrafts.
SkippedShowsNone(shows, setlists) == <<>>
SkippedShows(shows, setlists) ==
    LET Keep(show) == SetlistCount(setlists, show.show_id) = 0
    IN  SelectSeq(shows, Keep)

ScoredShows(shows, setlists) ==
    LET Keep(show) == ~(SetlistCount(setlists, show.show_id) = 0)
    IN  SelectSeq(shows, Keep)

RarityScore(show, rarityScore, normalizedScore, entries) ==
    [showId |-> show.show_id, date |-> show.showdate, rarityScore |-> rarityScore,
     normalizedScore |-> normalizedScore, entries |-> entries]

EmptyRecord == [k \in {} |-> 0]

\* The result for a dataset without setlist entries.
EmptyCorpusResultSkipped(shows) ==
    [scores |-> <<>>,
     skipped |-> [i \in Indices(shows) |-> RarityScore(shows[i], MIN_SHOW_SCORE, 0, 0)],
     songDetails |-> EmptyRecord, songAggregates |-> EmptyRecord]
EmptyCorpusResult(shows) ==
    [scores |-> [i \in Indices(shows) |-> RarityScore(shows[i], MIN_SHOW_SCORE, Unit, 0)],
     skipped |-> <<>>, songDetails |-> EmptyRecord, songAggregates |-> EmptyRecord]

computeRarityScores(shows, setlists, stream) ==
    IF Len(setlists) = 0 THEN EmptyCorpusResult(shows)
    ELSE
    LET sortedDates == ShowsWithSetlistDates(shows, setlists, 1)
        statsKeys == StatsKeys(setlists, stream)
        songs == {statsKeys[i] : i \in Indices(setlists)}
        stats == [key \in songs |-> SongStats(shows, setlists, statsKeys, key)]
        usageBySong == [key \in songs |-> SongUsage(stats[key], sortedDates)]
        keys == RarityKeys(setlists, stream)
        usageOf(key) == IF key \in songs THEN usageBySong[key] ELSE NoUsage
        ftpDate(key) ==
            IF key \notin songs THEN NoDate
            ELSE IF usageBySong[key].firstDate # NoDate THEN usageBySong[key].firstDate
            ELSE stats[key].firstAppearance
        ftpBonus == [i \in Indices(setlists) |->
                        FtpBonus(EntryDate(setlists[i], shows), ftpDate(keys[i]),
                                 isCover(setlists[i]))]
        raw == [i \in Indices(setlists) |->
                   (BaseRarity(usageOf(keys[i])) * CoverFactor2(isCover(setlists[i]))) \div 2
                       + ftpBonus[i]]
        minRaw == SeqMin(raw)
        spread == SeqMax(raw) - minRaw
        normalized == [i \in Indices(setlists) |-> NormalizeRaw(raw[i], minRaw, spread)]
        entryKey == [i \in Indices(setlists) |-> createRarityEntryKey(setlists[i], i - 1)]
        lastAt(k) == CHOOSE i \in Indices(setlists) :
                        /\ entryKey[i] = k
                        /\ \A j \in Indices(setlists) : entryKey[j] = k => j <= i
        detail(i) ==
            [key |-> entryKey[i],
             songKey |-> keys[i],
             normalized |-> normalized[i],
             raw |-> raw[i],
             ftpBonus |-> ftpBonus[i],
             plays |-> usageOf(keys[i]).plays,
             percentage |-> usageOf(keys[i]).percentage,
             isCover |-> isCover(setlists[i]),
             showId |-> setlists[i].show_id,
             firstDate |-> toISOString(usageOf(keys[i]).firstDate),
             firstAppearance |->
                 toISOString(IF keys[i] \in songs THEN stats[keys[i]].firstAppearance
                             ELSE NoDate)]
        total(showId) ==
            SumOver(normalized, {i \in Indices(setlists) : setlists[i].show_id = showId})
        drafts == ScoredShows(shows, setlists)
        draftScore == [i \in Indices(drafts) |->
                          ShowRarityScore(total(drafts[i].show_id),
                                          SetlistCount(setlists, drafts[i].show_id))]
        minScore == SeqMin(draftScore)
        scoreSpread == SeqMax(draftScore) - minScore
        skippedShows == SkippedShows(shows, setlists)
    IN  [scores |-> [i \in Indices(drafts) |->
                        RarityScore(drafts[i], draftScore[i],
                                    NormalizeScore(draftScore[i], minScore, scoreSpread),
                                    SetlistCount(setlists, drafts[i].show_id))],
         skipped |-> [i \in Indices(skippedShows) |->
                         RarityScore(skippedShows[i], MIN_SHOW_SCORE, 0, 0)],
         songDetails |-> [k \in {entryKey[i] : i \in Indices(setlists)} |-> detail(lastAt(k))],
         songAggregates |->
             [key \in songs |->
                 [songKey |-> key,
                  songId |-> stats[key].songId,
                  plays |-> usageBySong[key].plays,
                  denominator |-> usageBySong[key].denominator,
                  percentage |-> usageBySong[key].percentage,
                  firstDate |-> toISOString(usageBySong[key].firstDate),
                  coverCount |-> stats[key].coverCount,
                  originalCount |-> stats[key].originalCount]]]

\* ------------------------------------------------------------------------
\* ELGOOSE_DATASET_JSON (src/goose_rarity.js): values
\* ------------------------------------------------------------------------
\* The environment variable is undefined or holds a text; a memoised value
\* is undefined or a parsed dataset.
NoPayload == <<>>
PayloadTexts == {"[]", "[1]", "{invalid", "not json"}
Payloads == {NoPayload} \cup {<<text>> : text \in PayloadTexts}

\* JSON.parse(text): the parsed value, or a SyntaxError
JSONParse(text) ==
    CASE text = "[]" -> [ok |-> TRUE, value |-> <<>>]
      [] text = "[1]" -> [ok |-> TRUE, value |-> <<1>>]
      [] OTHER -> [ok |-> FALSE, value |-> <<>>]

NoCall == [payload |-> NoPayload, outcome |-> "none", value |-> <<>>]
ReturnedFromEnv(payload, value) == [payload |-> payload, outcome |-> "returned", value |-> value]
ThrewFromEnv(payload) == [payload |-> payload, outcome |-> "threw", value |-> <<>>]

\* ------------------------------------------------------------------------
\* runCli (src/goose_rarity.js): values
\* ------------------------------------------------------------------------
\* A top-level field of the loaded dataset is missing, null or an array.
MissingField == [kind |-> "missing", value |-> <<>>]
NullField == [kind |-> "null", value |-> <<>>]
ArrayField(elements) == [kind |-> "array", value |-> elements]
CliFields(values) == {MissingField, NullField} \cup {ArrayField(value) : value \in values}

\* ensureDataset threw, or handed back null, or handed back an object.
LoadThrew == [kind |-> "threw", shows |-> MissingField, setlists |-> MissingField]
LoadedNull == [kind |-> "null", shows |-> MissingField, setlists |-> MissingField]
LoadedObject(shows, setlists) == [kind |-> "object", shows |-> shows, setlists |-> setlists]

\* --year is absent
NoYear == 0

\* Number.parseInt(String(show.showdate).slice(0, 4), 10)
parseShowYear(showdate) ==
    CASE showdate \in {"2014-12-30", "2014-12-31"} -> 2014
      [] showdate \in {"2015-01-01", "2015-01-02"} -> 2015
      [] OTHER -> NoYear

\* The guard of runCli did not throw: !dataset?.shows and !dataset?.setlists
\* are false.  An array is truthy, an empty one too; a missing field and
\* null are not.
HasRequiredArraysShowsOnly(loaded) == loaded.shows.kind = "array"
HasRequiredArrays(loaded) == loaded.shows.kind = "array" /\ loaded.setlists.kind = "array"

MissingArraysMessage ==
    "Dataset is missing \"shows\" or \"setlists\" arrays. Try running with --update."

\* Papa.unparse of the rows showId, date, rarityScore.toFixed(6); the venue
\* column is left out, as the shows of the model have no venue.
formatCsvData(scores) ==
    [i \in 1..Len(scores) |->
        [showId |-> scores[i].showId, date |-> scores[i].date,
         rarityScore |-> scores[i].rarityScore]]

\* What one runCli call did: its exit code, what it handed to console.error,
\* how often it called computeRarityScores, and the CSV files it wrote.
CliOutcome(exitCode, reported, computeCalls, written) ==
    [exitCode |-> exitCode, errors |-> reported, computeCalls |-> computeCalls,
     written |-> written]

\* runCli without --venue.  The entries of the model name their song, so
\* that the songKey of the CLI and the songKey of the dashboard agree.
\* const { shows = [], setlists = [] } = dataset gives a missing field the
\* empty array and leaves null, which the loops over it cannot iterate.
runCli(loaded, year) ==
    IF loaded.kind = "threw"
    THEN CliOutcome(1, <<"Failed to parse dataset from ELGOOSE_DATASET_JSON">>, 0, <<>>)
    ELSE IF ~HasRequiredArrays(loaded) THEN CliOutcome(1, <<MissingArraysMessage>>, 0, <<>>)
    ELSE IF loaded.shows.kind = "null" \/ loaded.setlists.kind = "null"
    THEN CliOutcome(1, <<"TypeError">>, 1, <<>>)
    ELSE LET allScores ==
                 computeRarityScores(loaded.shows.value, loaded.setlists.value,
                                     "constant").scores
             InYear(score) == year = NoYear \/ parseShowYear(score.date) = year
         IN  CliOutcome(0, <<>>, 1, <<formatCsvData(SelectSeq(allScores, InYear))>>)

\* ------------------------------------------------------------------------
\* Initial states
\* ------------------------------------------------------------------------
\* Nothing has been scored, and the environment has not been read.
ScoreIdle ==
    /\ dataset = [shows |-> <<>>, setlists |-> <<>>]
    /\ computed = <<>>
    /\ previous = <<>>

EnvIdle ==
    /\ envPayload = NoPayload
    /\ envDatasetLoaded = FALSE
    /\ envDatasetValue = <<>>
    /\ envDatasetCacheKey = NoPayload
    /\ lastCall = NoCall

\* runCli has not been called, and neither has showsSince.
CliIdle ==
    /\ cliInput = [loaded |-> LoadThrew, year |-> NoYear]
    /\ cliOutcome = <<>>

SinceIdle ==
    /\ timeline = <<>>
    /\ since = <<>>

Locals ==
    /\ combinedRef = "combinedSetlists"
    /\ pc = "idle"
    /\ existingShowById = EmptyMap
    /\ mergedShows = <<>>
    /\ newShowRecords = <<>>
    /\ existingSetlistKeys = {}
    /\ newEntriesByShow = EmptyMap
    /\ index = 0
    /\ errors = <<>>
    /\ completed = 0
    /\ workers = NoWorkers
    /\ result = Pending
    /\ run = 1
    /\ inputAtStart = [shows |-> <<>>, setlists |-> <<>>]
    /\ fetchFailed = FALSE
    /\ firstCompleted = 0
    /\ progress = <<>>
    /\ persisted = LoadedDataset(existingShows, existingSetlists)
    /\ persistedAtStart = <<>>
    /\ claimed = <<>>
    /\ settled = {}
    /\ appDataset = LoadedDataset(existingShows, existingSetlists)
    /\ clear = "idle"

\* A cached dataset of a few shows and entries against a short remote list.
InitSmall ==
    /\ existingShows \in SeqsUpTo(CachedShowRecords, MaxCachedShows)
    /\ \E k \in 0..MaxCachedEntries :
          arrays = [existingSetlists |-> CachedSetlist(k), combinedSetlists |-> <<>>]
    /\ remoteShows \in SeqsUpTo(RemoteShowRecords, MaxRemoteShows)
    /\ profile \in Profiles
    /\ Locals
    /\ ScoreIdle
    /\ EnvIdle
    /\ CliIdle
    /\ SinceIdle

\* No cache and a remote list of more shows than there are workers.
InitPool ==
    /\ existingShows = <<>>
    /\ arrays = [existingSetlists |-> <<>>, combinedSetlists |-> <<>>]
    /\ remoteShows = [i \in 1..PoolShows |-> ShowRecord(NumberId(i), "remote")]
    /\ profile = "distinct"
    /\ Locals
    /\ ScoreIdle
    /\ EnvIdle
    /\ CliIdle
    /\ SinceIdle

Init == InitSmall \/ InitPool

\* The dashboard with one cached show, against a remote list of at most one.
InitClear ==
    /\ InitSmall
    /\ Len(existingShows) = 1
    /\ Len(remoteShows) <= 1
    /\ profile = "distinct"

\* No sync is under way.
SyncIdle ==
    /\ existingShows = <<>>
    /\ arrays = [existingSetlists |-> <<>>, combinedSetlists |-> <<>>]
    /\ remoteShows = <<>>
    /\ profile = "distinct"
    /\ Locals

\* The datasets handed to computeRarityScores: shows 1..n, each on one of
\* three days around the first-play cutoff, and a few setlist entries.
ScoreShows ==
    UNION {{[i \in 1..n |-> Show(i, days[i])] : days \in [1..n -> ShowDates]} :
              n \in 0..MaxScoreShows}

\* The original is played at show 1 and at show 2, the cover at show 1; an
\* entry that names no song is of show 1 or of no show.
ScoreEntries ==
    {OriginalEntry(1), OriginalEntry(2), CoverEntry(1), AnonymousEntry(1),
     AnonymousEntry(Null)}

\* Two shows of the years around the cutoff, the first one two days before
\* it at the earliest, and two entries, with or without a uniqueid.
ArchiveDatasets ==
    LET dates == {"2014-12-30", "2014-12-31", "2015-01-01"}
        entries == {OriginalEntry(1), OriginalEntry(2), CoverEntry(1),
                    ArchivedEntry(1), ArchivedEntry(2)}
    IN  {[shows |-> <<Show(1, first), Show(2, second)>>, setlists |-> <<opener, closer>>] :
            first \in dates, second \in dates, opener \in entries, closer \in entries}

InitScore ==
    /\ SyncIdle
    /\ EnvIdle
    /\ CliIdle
    /\ SinceIdle
    /\ \/ \E shows \in ScoreShows, setlists \in SeqsUpTo(ScoreEntries, MaxScoreEntries) :
              dataset = [shows |-> shows, setlists |-> setlists]
       \/ dataset \in ArchiveDatasets
    /\ computed = <<>>
    /\ previous = <<>>

InitEnv ==
    /\ SyncIdle
    /\ ScoreIdle
    /\ EnvIdle
    /\ CliIdle
    /\ SinceIdle

\* The timelines handed to showsSince: up to MaxTimeline days in ascending
\* order, a day more than once when several shows were played on it.
Days == 1..MaxDay
Timelines ==
    {dates \in SeqsUpTo(Days, MaxTimeline) :
        \A i \in 1..(Len(dates) - 1) : dates[i] <= dates[i + 1]}

InitSince ==
    /\ SyncIdle
    /\ ScoreIdle
    /\ EnvIdle
    /\ CliIdle
    /\ timeline \in Timelines
    /\ since = <<>>

\* The datasets ensureDataset hands to runCli: each of the two fields is
\* missing, null or an array, and the entries name their song.
CliLoaded ==
    {LoadThrew, LoadedNull}
        \cup {LoadedObject(shows, setlists) :
                 shows \in CliFields(ScoreShows),
                 setlists \in CliFields(SeqsUpTo({OriginalEntry(1), OriginalEntry(2),
                                                  CoverEntry(1)}, MaxScoreEntries))}

InitCli ==
    /\ SyncIdle
    /\ ScoreIdle
    /\ EnvIdle
    /\ SinceIdle
    /\ \E loaded \in CliLoaded, year \in {NoYear, 2015} :
          cliInput = [loaded |-> loaded, year |-> year]
    /\ cliOutcome = <<>>

\* ------------------------------------------------------------------------
\* Actions
\* ------------------------------------------------------------------------
\* The call starts: the cached shows are indexed by id, then the call awaits
\* the remote show list.
StartSync ==
    /\ pc = "idle"
    /\ existingShowById' = BuildExistingShowById(existingShows)
    /\ inputAtStart' = [shows |-> existingShows, setlists |-> existingSetlists]
    /\ persistedAtStart' = persisted
    /\ progress' = StartedEvents
    /\ pc' = "fetchingShows"
    /\ UNCHANGED <<existingShows, arrays, combinedRef, remoteShows, profile,
                   mergedShows, newShowRecords, existingSetlistKeys,
                   newEntriesByShow, index, errors, completed, workers, result,
                   run, fetchFailed, firstCompleted, persisted>>
    /\ clear' = CASE clear = "done" -> "idle"
                   [] clear = "deleting" -> "superseded"
                   [] OTHER -> clear
    /\ UNCHANGED <<claimed, settled, appDataset>>
    /\ UNCHANGED <<scoreVars, envVars, cliVars, sinceVars>>

\* fetchShows() throws: the call rejects.
ShowsFetchRejected ==
    /\ pc = "fetchingShows"
    /\ pc' = "rejected"
    /\ result' = Rejected
    /\ UNCHANGED <<existingShows, arrays, combinedRef, remoteShows, profile,
                   existingShowById, mergedShows, newShowRecords,
                   existingSetlistKeys, newEntriesByShow, index, errors,
                   completed, workers, run, inputAtStart, fetchFailed,
                   firstCompleted, progress, persisted, persistedAtStart>>
    /\ UNCHANGED <<claimed, settled, appDataset, clear>>
    /\ UNCHANGED <<scoreVars, envVars, cliVars, sinceVars>>

MergedShowsOf(latest, existing, byId) ==
    PreserveCachedShows(MergeLatestShows(latest, byId), existing, 1)

\* The show list arrives and holds no new show: the call resolves with the
\* merged shows and a copy of the cached setlists.
ShowsFetchedNoNewShows ==
    /\ pc = "fetchingShows"
    /\ CollectNewShows(remoteShows, existingShowById, 1) = <<>>
    /\ mergedShows' = MergedShowsOf(remoteShows, existingShows, existingShowById)
    /\ newShowRecords' = <<>>
    /\ existingSetlistKeys' = CollectSetlistKeys(existingSetlists)
    /\ combinedRef' = SpreadCopyOf("existingSetlists")
    /\ arrays' = [arrays EXCEPT ![combinedRef'] = existingSetlists]
    /\ result' = Resolved(mergedShows', arrays'[combinedRef'], 0, 0)
    /\ progress' = progress \o ShowsFetchedEvents \o UpToDateEvents
    /\ pc' = "resolved"
    /\ UNCHANGED <<existingShows, remoteShows, profile, existingShowById,
                   newEntriesByShow, index, errors, completed, workers, run,
                   inputAtStart, fetchFailed, firstCompleted, persisted,
                   persistedAtStart>>
    /\ UNCHANGED <<claimed, settled, appDataset, clear>>
    /\ UNCHANGED <<scoreVars, envVars, cliVars, sinceVars>>

\* The show list arrives with new shows: the workers are started, and each
\* runs up to its first await.
ShowsFetchedHasNewShows ==
    /\ pc = "fetchingShows"
    /\ CollectNewShows(remoteShows, existingShowById, 1) # <<>>
    /\ mergedShows' = MergedShowsOf(remoteShows, existingShows, existingShowById)
    /\ newShowRecords' = CollectNewShows(remoteShows, existingShowById, 1)
    /\ existingSetlistKeys' = CollectSetlistKeys(existingSetlists)
    /\ combinedRef' = SpreadCopyOf("existingSetlists")
    /\ arrays' = [arrays EXCEPT ![combinedRef'] = existingSetlists]
    /\ LET n == Len(newShowRecords')
           workerCount == WorkerCount(n)
       IN  /\ workers' = [w \in 1..workerCount |-> ClaimNext(w - 1, n)]
           /\ index' = Min(workerCount, n)
    /\ errors' = <<>>
    /\ completed' = 0
    /\ newEntriesByShow' = EmptyMap
    /\ progress' = progress \o ShowsFetchedEvents \o DownloadingEvents
    /\ pc' = "fetchingSetlists"
    /\ UNCHANGED <<existingShows, remoteShows, profile, existingShowById,
                   result, run, inputAtStart, fetchFailed, firstCompleted,
                   persisted, persistedAtStart>>
    /\ claimed' = StartedFetches(workers')
    /\ UNCHANGED <<settled, appDataset, clear>>
    /\ UNCHANGED <<scoreVars, envVars, cliVars, sinceVars>>

\* The setlist fetch of worker w resolves: its entries are filtered against
\* the key set, kept under the show's id, and the worker claims the next
\* candidate or returns.
SetlistFetched(w) ==
    /\ pc = "fetchingSetlists"
    /\ workers[w].status = "awaiting"
    /\ LET id == newShowRecords[workers[w].currentIndex].id
           r == FilterEntries(SetlistResponse(profile, id), existingSetlistKeys, <<>>)
       IN  /\ existingSetlistKeys' = r.keys
           /\ newEntriesByShow' =
                  IF Len(r.filtered) > 0 THEN MapSet(newEntriesByShow, id, r.filtered)
                  ELSE newEntriesByShow
    /\ completed' = completed + 1
    /\ firstCompleted' = IF completed = 0 THEN workers[w].currentIndex ELSE firstCompleted
    /\ workers' = [workers EXCEPT ![w] = ClaimNext(index, Len(newShowRecords))]
    /\ index' = IF index < Len(newShowRecords) THEN index + 1 ELSE index
    /\ progress' = progress \o FetchSettledEvents
    /\ UNCHANGED <<existingShows, arrays, combinedRef, remoteShows, profile, pc,
                   existingShowById, mergedShows, newShowRecords, errors,
                   result, run, inputAtStart, fetchFailed, persisted,
                   persistedAtStart>>
    /\ settled' = settled \cup {workers[w].currentIndex}
    /\ claimed' = IF workers'[w].status = "awaiting"
                  THEN Append(claimed, workers'[w].currentIndex) ELSE claimed
    /\ UNCHANGED <<appDataset, clear>>
    /\ UNCHANGED <<scoreVars, envVars, cliVars, sinceVars>>

\* The setlist fetch of worker w throws: the error is recorded, and the
\* worker claims the next candidate or returns.
SetlistFetchRejected(w) ==
    /\ pc = "fetchingSetlists"
    /\ workers[w].status = "awaiting"
    /\ errors' = RecordError(errors, newShowRecords[workers[w].currentIndex].id)
    /\ fetchFailed' = TRUE
    /\ completed' = completed + 1
    /\ firstCompleted' = IF completed = 0 THEN workers[w].currentIndex ELSE firstCompleted
    /\ workers' = [workers EXCEPT ![w] = ClaimNext(index, Len(newShowRecords))]
    /\ index' = IF index < Len(newShowRecords) THEN index + 1 ELSE index
    /\ progress' = progress \o FetchSettledEvents
    /\ UNCHANGED <<existingShows, arrays, combinedRef, remoteShows, profile, pc,
                   existingShowById, mergedShows, newShowRecords,
                   existingSetlistKeys, newEntriesByShow, result, run,
                   inputAtStart, persisted, persistedAtStart>>
    /\ settled' = settled \cup {workers[w].currentIndex}
    /\ claimed' = IF workers'[w].status = "awaiting"
                  THEN Append(claimed, workers'[w].currentIndex) ELSE claimed
    /\ UNCHANGED <<appDataset, clear>>
    /\ UNCHANGED <<scoreVars, envVars, cliVars, sinceVars>>

AnyWorkerReturned == \E w \in DOMAIN workers : workers[w].status = "returned"
AllWorkersReturned == \A w \in DOMAIN workers : workers[w].status = "returned"

\* Every worker has returned and an error was recorded: the call rejects.
SettleRejected ==
    /\ pc = "fetchingSetlists"
    /\ AllWorkersReturned
    /\ HasErrors(errors)
    /\ result' = Rejected
    /\ pc' = "rejected"
    /\ UNCHANGED <<existingShows, arrays, combinedRef, remoteShows, profile,
                   existingShowById, mergedShows, newShowRecords,
                   existingSetlistKeys, newEntriesByShow, index, errors,
                   completed, workers, run, inputAtStart, fetchFailed,
                   firstCompleted, progress, persisted, persistedAtStart>>
    /\ UNCHANGED <<claimed, settled, appDataset, clear>>
    /\ UNCHANGED <<scoreVars, envVars, cliVars, sinceVars>>

\* Every worker has returned without an error: the new entries are appended
\* show by show and the call resolves.
SettleResolved ==
    /\ pc = "fetchingSetlists"
    /\ AllWorkersReturned
    /\ ~HasErrors(errors)
    /\ arrays' = [arrays EXCEPT
                     ![combinedRef] = AppendAdditions(combinedSetlists, mergedShows, newEntriesByShow)]
    /\ result' = Resolved(mergedShows, arrays'[combinedRef],
                          Len(newShowRecords), AddedSetlistCount(newEntriesByShow))
    /\ progress' = progress \o FinishedEvents
    /\ pc' = "resolved"
    /\ UNCHANGED <<existingShows, combinedRef, remoteShows, profile,
                   existingShowById, mergedShows, newShowRecords,
                   existingSetlistKeys, newEntriesByShow, index, errors,
                   completed, workers, run, inputAtStart, fetchFailed,
                   firstCompleted, persisted, persistedAtStart>>
    /\ UNCHANGED <<claimed, settled, appDataset, clear>>
    /\ UNCHANGED <<scoreVars, envVars, cliVars, sinceVars>>

\* The caller's await of the sync returns: the returned dataset is written
\* to the persisted cache and, when the write has completed, becomes the
\* in-memory dataset.
SaveDataset ==
    /\ pc = "resolved"
    /\ ~DeleteIsFirst(clear)
    /\ persisted' = SavedDataset(result.dataset[1])
    /\ pc' = "saved"
    /\ UNCHANGED <<existingShows, arrays, combinedRef, remoteShows, profile,
                   existingShowById, mergedShows, newShowRecords,
                   existingSetlistKeys, newEntriesByShow, index, errors,
                   completed, workers, result, run, inputAtStart, fetchFailed,
                   firstCompleted, progress, persistedAtStart>>
    /\ appDataset' = SavedDataset(result.dataset[1])
    /\ clear' = IF clear = "behindSave" THEN "deleting" ELSE clear
    /\ UNCHANGED <<claimed, settled>>
    /\ UNCHANGED <<scoreVars, envVars, cliVars, sinceVars>>

\* The caller's await of the sync throws: the catch block reports the error.
HandleSyncError ==
    /\ pc = "rejected"
    /\ persisted' = PersistedAfterCatch(persisted)
    /\ pc' = "failed"
    /\ UNCHANGED <<existingShows, arrays, combinedRef, remoteShows, profile,
                   existingShowById, mergedShows, newShowRecords,
                   existingSetlistKeys, newEntriesByShow, index, errors,
                   completed, workers, result, run, inputAtStart, fetchFailed,
                   firstCompleted, progress, persistedAtStart>>
    /\ UNCHANGED <<claimed, settled, appDataset, clear>>
    /\ UNCHANGED <<scoreVars, envVars, cliVars, sinceVars>>

\* The caller syncs again, from its in-memory dataset; the remote has not
\* changed.
Resync ==
    /\ pc = "saved"
    /\ run < MaxRuns
    /\ existingShows' = CurrentDataset(appDataset).shows
    /\ arrays' = [existingSetlists |-> CurrentDataset(appDataset).setlists,
                  combinedSetlists |-> <<>>]
    /\ combinedRef' = "combinedSetlists"
    /\ pc' = "idle"
    /\ existingShowById' = EmptyMap
    /\ mergedShows' = <<>>
    /\ newShowRecords' = <<>>
    /\ existingSetlistKeys' = {}
    /\ newEntriesByShow' = EmptyMap
    /\ index' = 0
    /\ errors' = <<>>
    /\ completed' = 0
    /\ workers' = NoWorkers
    /\ result' = Pending
    /\ run' = run + 1
    /\ inputAtStart' = [shows |-> <<>>, setlists |-> <<>>]
    /\ fetchFailed' = FALSE
    /\ firstCompleted' = 0
    /\ progress' = <<>>
    /\ persistedAtStart' = <<>>
    /\ UNCHANGED <<remoteShows, profile, persisted>>
    /\ claimed' = <<>>
    /\ settled' = {}
    /\ UNCHANGED <<appDataset, clear>>
    /\ UNCHANGED <<scoreVars, envVars, cliVars, sinceVars>>

Next ==
    \/ StartSync
    \/ ShowsFetchRejected
    \/ ShowsFetchedNoNewShows
    \/ ShowsFetchedHasNewShows
    \/ \E w \in DOMAIN workers : SetlistFetched(w)
    \/ \E w \in DOMAIN workers : SetlistFetchRejected(w)
    \/ SettleRejected
    \/ SettleResolved
    \/ SaveDataset
    \/ HandleSyncError
    \/ Resync

Spec == Init /\ [][Next]_vars

\* Clear Cache is clicked, which the button allows while there is an
\* in-memory dataset: clearDataset() is called and awaited.
ClickClearCache ==
    /\ appDataset # <<>>
    /\ clear \in {"idle", "done"}
    /\ clear' = IF pc = "resolved" THEN "behindSave" ELSE "deleting"
    /\ UNCHANGED <<existingShows, arrays, combinedRef, remoteShows, profile, pc,
                   existingShowById, mergedShows, newShowRecords,
                   existingSetlistKeys, newEntriesByShow, index, errors,
                   completed, workers, result, run, inputAtStart, fetchFailed,
                   firstCompleted, progress, persisted, persistedAtStart,
                   claimed, settled, appDataset>>
    /\ UNCHANGED <<scoreVars, envVars, cliVars, sinceVars>>

\* clearDataset() has completed: the persisted dataset is deleted and the
\* handler sets the in-memory dataset to null.
ClearCompleted ==
    /\ DeleteIsFirst(clear)
    /\ persisted' = <<>>
    /\ appDataset' = <<>>
    /\ clear' = IF clear = "deleting" THEN "done" ELSE "idle"
    /\ UNCHANGED <<existingShows, arrays, combinedRef, remoteShows, profile, pc,
                   existingShowById, mergedShows, newShowRecords,
                   existingSetlistKeys, newEntriesByShow, index, errors,
                   completed, workers, result, run, inputAtStart, fetchFailed,
                   firstCompleted, progress, persistedAtStart, claimed, settled>>
    /\ UNCHANGED <<scoreVars, envVars, cliVars, sinceVars>>

NextClear ==
    \/ Next
    \/ ClickClearCache
    \/ ClearCompleted

\* The sync and its caller, with the Clear Cache button.
SpecClear == InitClear /\ [][NextClear]_vars

\* Every setlist fetch that was started settles, and the continuation of
\* Promise.all runs once every worker has returned.
\* More candidates than workers, under that scheduling.
SpecPool ==
    /\ InitPool
    /\ [][Next]_vars
    /\ \A w \in 1..SETLIST_FETCH_CONCURRENCY :
          WF_vars(w \in DOMAIN workers /\ (SetlistFetched(w) \/ SetlistFetchRejected(w)))
    /\ WF_vars(SettleRejected \/ SettleResolved)

\* One computeRarityScores call on the dataset.  Math.random() is called
\* only for entries that name no song and no show.
StreamsFor(setlists) ==
    IF \E i \in Indices(setlists) : CallsRandom(setlists[i]) THEN RandomStreams
    ELSE {"constant"}

\* The dataset is scored, and scored once more.
ComputeRarityScores ==
    /\ previous = <<>>
    /\ \E stream \in StreamsFor(dataset.setlists) :
          computed' = <<computeRarityScores(dataset.shows, dataset.setlists, stream)>>
    /\ previous' = computed
    /\ UNCHANGED <<dataset, syncVars, envVars, cliVars, sinceVars>>

NextScore == ComputeRarityScores

SpecScore == InitScore /\ [][NextScore]_vars

\* The environment variable is set, or unset.
SetEnvPayload ==
    /\ \E payload \in Payloads \ {envPayload} : envPayload' = payload
    /\ UNCHANGED <<envDatasetLoaded, envDatasetValue, envDatasetCacheKey, lastCall>>
    /\ UNCHANGED <<syncVars, scoreVars, cliVars, sinceVars>>

\* One getDatasetFromEnv call: the memoised value when the payload is the
\* one memoised; else the payload is memoised first and parsed next.
GetDatasetFromEnv ==
    /\ IF envDatasetLoaded /\ envPayload = envDatasetCacheKey
       THEN /\ lastCall' = ReturnedFromEnv(envPayload, envDatasetValue)
            /\ UNCHANGED <<envDatasetLoaded, envDatasetValue, envDatasetCacheKey>>
       ELSE /\ envDatasetLoaded' = TRUE
            /\ envDatasetCacheKey' = envPayload
            /\ IF envPayload = NoPayload
               THEN /\ envDatasetValue' = <<>>
                    /\ lastCall' = ReturnedFromEnv(envPayload, <<>>)
               ELSE IF JSONParse(envPayload[1]).ok
               THEN /\ envDatasetValue' = <<JSONParse(envPayload[1]).value>>
                    /\ lastCall' = ReturnedFromEnv(envPayload, envDatasetValue')
               ELSE /\ envDatasetValue' = envDatasetValue
                    /\ lastCall' = ThrewFromEnv(envPayload)
    /\ UNCHANGED envPayload
    /\ UNCHANGED <<syncVars, scoreVars, cliVars, sinceVars>>

ResetEnvDatasetCache ==
    /\ envDatasetLoaded' = FALSE
    /\ envDatasetValue' = <<>>
    /\ envDatasetCacheKey' = NoPayload
    /\ UNCHANGED <<envPayload, lastCall>>
    /\ UNCHANGED <<syncVars, scoreVars, cliVars, sinceVars>>

NextEnv ==
    \/ SetEnvPayload
    \/ GetDatasetFromEnv
    \/ ResetEnvDatasetCache

SpecEnv == InitEnv /\ [][NextEnv]_vars

\* One showsSince call on the timeline, with a date or without one.
ShowsSince ==
    /\ \E date \in Days \cup {NoDate} :
          since' = <<[date |-> date,
                      returned |-> showsSince(date, timeline, Len(timeline))]>>
    /\ UNCHANGED <<timeline, syncVars, scoreVars, envVars, cliVars>>

SpecSince == InitSince /\ [][ShowsSince]_vars

\* One runCli call, from the loaded dataset to the exit code.
RunCli ==
    /\ cliOutcome = <<>>
    /\ cliOutcome' = <<runCli(cliInput.loaded, cliInput.year)>>
    /\ UNCHANGED <<cliInput, syncVars, scoreVars, envVars, sinceVars>>

SpecCli == InitCli /\ [][RunCli]_vars

TypeOK ==
    /\ pc \in {"idle", "fetchingShows", "fetchingSetlists", "resolved", "rejected",
              "saved", "failed"}
    /\ index \in 0..Len(newShowRecords)
    /\ completed \in 0..Len(newShowRecords)
    /\ run \in 1..MaxRuns
    /\ clear \in {"idle", "deleting", "behindSave", "superseded", "done"}
    /\ settled \subseteq 1..Len(newShowRecords)

\* ------------------------------------------------------------------------
\* Properties
\* ------------------------------------------------------------------------
Settled == pc \in {"resolved", "rejected", "saved", "failed"}
Returned == result.dataset[1]
NumericIds(shows) == {toNumericId(shows[i].show_id) : i \in 1..Len(shows)} \ {Undefined}
Elements(seq) == {seq[i] : i \in 1..Len(seq)}

\* C1: when the setlist fetch of some candidate has failed, the call never
\* resolves: it rejects and hands back no dataset, so no entry of a
\* candidate whose fetch succeeded reaches a returned value.
C1_FailedFetchRejectsWhole ==
    fetchFailed =>
        /\ pc # "resolved"
        /\ result.dataset = <<>>
        /\ Settled => result.status = "rejected"

\* Of three or more candidates one fetch failed, another succeeded with
\* entries, and the call has rejected.
C1_Witness ==
    /\ pc = "rejected"
    /\ fetchFailed
    /\ Len(newShowRecords) >= 3
    /\ DOMAIN newEntriesByShow # {}
    /\ result.dataset = <<>>

\* C2: after a successful sync, every cached show record whose id is not in
\* the remote show list is an element of the returned shows.
C2_CachedShowsAbsentFromRemoteKept ==
    pc = "resolved" =>
        \A i \in 1..Len(inputAtStart.shows) :
            LET show == inputAtStart.shows[i]
            IN  toNumericId(show.show_id) \notin NumericIds(remoteShows)
                    => show \in Elements(Returned.shows)

\* C3: for every remote show whose id the cache holds, the returned shows
\* hold, at that show's place, the cached record of that id, and the remote
\* record is in the returned shows only if it is itself a cached record.
C3_CachedRecordWins ==
    pc = "resolved" =>
        \A j \in 1..Len(remoteShows) :
            LET id == toNumericId(remoteShows[j].show_id)
            IN  (id # Undefined /\ id \in NumericIds(inputAtStart.shows)) =>
                    /\ Returned.shows[j] \in Elements(inputAtStart.shows)
                    /\ toNumericId(Returned.shows[j].show_id) = id
                    /\ remoteShows[j] \in Elements(Returned.shows)
                           => remoteShows[j] \in Elements(inputAtStart.shows)

\* A sync that fetched new shows has resolved, and the remote list also held
\* an edited copy of a cached show, under a string id.
C3_Witness ==
    /\ pc = "resolved"
    /\ run = 1
    /\ Len(newShowRecords) > 0
    /\ \E j \in 1..Len(remoteShows) :
          /\ remoteShows[j].show_id = NumeralId(1)
          /\ 1 \in NumericIds(inputAtStart.shows)
          /\ remoteShows[j] \notin Elements(inputAtStart.shows)
          /\ Returned.shows[j].venuename = "cached"

DistinctKeys(setlists) ==
    \A i, j \in 1..Len(setlists) :
        (i < j /\ createSetlistEntryKey(setlists[i]) # UndefinedKey)
            => createSetlistEntryKey(setlists[i]) # createSetlistEntryKey(setlists[j])

\* C4: after a successful sync on a cache whose entries have pairwise
\* distinct dedup keys, no two entries of the returned setlists share a
\* dedup key.
C4_ReturnedKeysDistinct ==
    (pc = "resolved" /\ DistinctKeys(inputAtStart.setlists))
        => DistinctKeys(Returned.setlists)

\* C5: a second sync, on the dataset the first one returned and against the
\* same remote, adds no show and no entry.
C5_SecondSyncAddsNothing ==
    (run >= 2 /\ pc = "resolved") =>
        /\ result.addedShowCount = 0
        /\ result.addedSetlistCount = 0

\* The second sync has resolved on a cache that holds shows and entries the
\* first sync added.
C5_Witness ==
    /\ run = 2
    /\ pc = "resolved"
    /\ \E i \in 1..Len(existingShows) :
          /\ existingShows[i].venuename = "remote"
          /\ toNumericId(existingShows[i].show_id) # Undefined
    /\ \E i \in 1..Len(existingSetlists) : existingSetlists[i].show_id = NumberId(2)
    /\ \E i \in 1..Len(existingSetlists) : existingSetlists[i].show_id = NumberId(ArchivedShowId)
    /\ result.addedShowCount = 0

\* The entries kept per show when the fetches complete in the order of the
\* candidate list.
RECURSIVE InOrderEntries(_, _, _, _)
InOrderEntries(candidates, keys, byShow, p) ==
    IF candidates = <<>> THEN byShow
    ELSE LET id == Head(candidates).id
             r == FilterEntries(SetlistResponse(p, id), keys, <<>>)
         IN  InOrderEntries(Tail(candidates), r.keys,
                            IF Len(r.filtered) > 0 THEN MapSet(byShow, id, r.filtered)
                            ELSE byShow,
                            p)

InOrderSetlists ==
    AppendAdditions(inputAtStart.setlists, Returned.shows,
                    InOrderEntries(newShowRecords,
                                   CollectSetlistKeys(inputAtStart.setlists),
                                   EmptyMap, profile))

\* C6: whatever the order in which the setlist fetches complete, a
\* successful sync returns the setlists it returns when they complete in the
\* order of the candidate list (the shows do not depend on the fetches).
C6_CompletionOrderIrrelevant ==
    (pc = "resolved" /\ newShowRecords # <<>>)
        => Returned.setlists = InOrderSetlists

\* C7: once the call has started, and when it has settled, the input's
\* shows and setlists arrays hold what they held when the call started.
C7_InputNotMutated ==
    pc \in {"fetchingShows", "fetchingSetlists", "resolved", "rejected"} =>
        /\ existingShows = inputAtStart.shows
        /\ existingSetlists = inputAtStart.setlists

\* The call has resolved with more entries than the cache had, and the
\* cache was not empty.
C7_Witness ==
    /\ pc = "resolved"
    /\ Len(existingSetlists) > 0
    /\ Len(existingShows) > 0
    /\ Len(Returned.setlists) > Len(existingSetlists)
    /\ Len(Returned.shows) > Len(existingShows)

\* C8 as stated: with no new-show candidate, the returned shows and
\* setlists equal the input's and addedShowCount is 0.
C8_NoNewShowsReturnsInput ==
    (pc = "resolved" /\ newShowRecords = <<>>) =>
        /\ Returned.shows = inputAtStart.shows
        /\ Returned.setlists = inputAtStart.setlists
        /\ result.addedShowCount = 0

\* C8 amended: with no new-show candidate, the returned setlists equal the
\* input's and both added counts are 0; the returned shows are the merged
\* list, in which every record with a numeric id is a cached record and
\* every numeric id of the cache still occurs.
C8_NoNewShowsKeepsSetlists ==
    (pc = "resolved" /\ newShowRecords = <<>>) =>
        /\ Returned.setlists = inputAtStart.setlists
        /\ result.addedShowCount = 0
        /\ result.addedSetlistCount = 0
        /\ \A k \in 1..Len(Returned.shows) :
              toNumericId(Returned.shows[k].show_id) # Undefined
                  => Returned.shows[k] \in Elements(inputAtStart.shows)
        /\ NumericIds(inputAtStart.shows) \subseteq NumericIds(Returned.shows)

\* A first sync without candidates has resolved with the two cached shows
\* in the remote's order, which is not the cache's order.
C8_Witness ==
    /\ pc = "resolved"
    /\ run = 1
    /\ newShowRecords = <<>>
    /\ Len(inputAtStart.shows) = 2
    /\ Len(inputAtStart.setlists) > 0
    /\ Len(remoteShows) = 2
    /\ Returned.shows # inputAtStart.shows
    /\ Elements(Returned.shows) = Elements(inputAtStart.shows)

InFlight == {w \in DOMAIN workers : workers[w].status = "awaiting"}

\* C9: at every moment the setlist fetches started and not yet settled are
\* at most min(5, number of new-show candidates).
C9_InFlightBounded ==
    Cardinality(InFlight) <= Min(5, Len(newShowRecords))

\* More candidates than workers: five fetches are in flight after a worker
\* has finished one fetch and claimed the last candidate.
C9_Witness ==
    /\ pc = "fetchingSetlists"
    /\ Len(newShowRecords) > 5
    /\ completed >= 1
    /\ Cardinality(InFlight) = 5
    /\ index = Len(newShowRecords)

\* tail is the concatenation, over shows in order, of each show's new
\* entries.
RECURSIVE GroupedByShow(_, _, _)
GroupedByShow(tail, shows, byShow) ==
    IF shows = <<>> THEN tail = <<>>
    ELSE LET showId == toNumericId(Head(shows).show_id)
             group == IF showId \in DOMAIN byShow THEN byShow[showId] ELSE <<>>
         IN  /\ Len(tail) >= Len(group)
             /\ SubSeq(tail, 1, Len(group)) = group
             /\ GroupedByShow(SubSeq(tail, Len(group) + 1, Len(tail)), Tail(shows), byShow)

\* C10: the returned setlists start with the cached entries in their
\* order, and the rest are the new entries, one group per show in the order
\* of the returned shows.
C10_CachedFirstThenByShow ==
    pc = "resolved" =>
        LET n == Len(inputAtStart.setlists)
            ret == Returned.setlists
        IN  /\ Len(ret) >= n
            /\ SubSeq(ret, 1, n) = inputAtStart.setlists
            /\ GroupedByShow(SubSeq(ret, n + 1, Len(ret)), Returned.shows, newEntriesByShow)

\* Two cached entries, new entries of two shows, and the fetch of the
\* second candidate completed before that of the first.
C10_Witness ==
    /\ pc = "resolved"
    /\ Len(inputAtStart.setlists) = 2
    /\ inputAtStart.setlists[1] # inputAtStart.setlists[2]
    /\ Cardinality(DOMAIN newEntriesByShow) = 2
    /\ firstCompleted = 2

\* ------------------------------------------------------------------------
\* Properties of computeRarityScores
\* ------------------------------------------------------------------------
Scored == computed # <<>>
Outcome == computed[1]

\* How many elements of a result list stand for the show, and how many
\* elements of the input are that show.
Occurrences(list, show) ==
    Cardinality({k \in Indices(list) :
                    list[k].showId = show.show_id /\ list[k].date = show.showdate})

Copies(shows, show) == Cardinality({j \in Indices(shows) : shows[j] = show})

\* The entries whose show_id is the show's.
LinkedEntries(show) ==
    {i \in Indices(dataset.setlists) : dataset.setlists[i].show_id = show.show_id}

\* C11: every element of shows is in exactly one of scores and skipped:
\* each show occurs in one of the two lists only, as often as in the input,
\* and the lists hold nothing else.
C11_EveryShowScoredOrSkipped ==
    Scored =>
        /\ Len(Outcome.scores) + Len(Outcome.skipped) = Len(dataset.shows)
        /\ \A i \in Indices(dataset.shows) :
              LET show == dataset.shows[i]
                  inScores == Occurrences(Outcome.scores, show)
                  inSkipped == Occurrences(Outcome.skipped, show)
              IN  /\ inScores + inSkipped = Copies(dataset.shows, show)
                  /\ inScores = 0 \/ inSkipped = 0

\* Of two shows one has entries and is scored, the other has none and is
\* skipped.
C11_Witness ==
    /\ Scored
    /\ Len(dataset.shows) = 2
    /\ Len(Outcome.scores) = 1
    /\ Len(Outcome.skipped) = 1
    /\ Outcome.scores[1].entries = 2

\* C12 as stated: for every dataset, a show without linked entries is in
\* skipped and not in scores.
C12_UnlinkedShowSkipped ==
    Scored =>
        \A i \in Indices(dataset.shows) :
            LinkedEntries(dataset.shows[i]) = {} =>
                /\ Occurrences(Outcome.scores, dataset.shows[i]) = 0
                /\ Occurrences(Outcome.skipped, dataset.shows[i]) > 0

\* C12 amended: for every dataset with at least one setlist entry, a show
\* without linked entries is in skipped and not in scores.
C12_UnlinkedShowSkippedUnlessEmpty ==
    (Scored /\ Len(dataset.setlists) > 0) =>
        \A i \in Indices(dataset.shows) :
            LinkedEntries(dataset.shows[i]) = {} =>
                /\ Occurrences(Outcome.scores, dataset.shows[i]) = 0
                /\ Occurrences(Outcome.skipped, dataset.shows[i]) > 0

\* The dataset has entries, all of show 1 or of no show, and show 2 is the
\* only skipped show.
C12_Witness ==
    /\ Scored
    /\ Len(dataset.setlists) = 3
    /\ Len(dataset.shows) = 2
    /\ LinkedEntries(dataset.shows[2]) = {}
    /\ LinkedEntries(dataset.shows[1]) # {}
    /\ Len(Outcome.skipped) = 1
    /\ Outcome.skipped[1].showId = 2

\* C13: every songDetails record has a normalized value from 0.05 to 1.0,
\* and every element of scores a normalizedScore from 0 to 1.
C13_NormalizedInRange ==
    Scored =>
        /\ \A k \in DOMAIN Outcome.songDetails :
              /\ Outcome.songDetails[k].normalized >= MIN_NORMALIZED_RARITY
              /\ Outcome.songDetails[k].normalized <= MAX_NORMALIZED_RARITY
        /\ \A i \in Indices(Outcome.scores) :
              /\ Outcome.scores[i].normalizedScore >= 0
              /\ Outcome.scores[i].normalizedScore <= Unit

\* Three entries of three different raw rarities, the middle one normalised
\* strictly inside the range, and two shows at both ends of the score range.
C13_Witness ==
    /\ Scored
    /\ Cardinality({Outcome.songDetails[k].raw : k \in DOMAIN Outcome.songDetails}) = 3
    /\ \E k \in DOMAIN Outcome.songDetails :
          /\ Outcome.songDetails[k].normalized > MIN_NORMALIZED_RARITY
          /\ Outcome.songDetails[k].normalized < MAX_NORMALIZED_RARITY
    /\ \E i, j \in Indices(Outcome.scores) :
          /\ Outcome.scores[i].normalizedScore = 0
          /\ Outcome.scores[j].normalizedScore = Unit

\* C14: a second run on the same dataset returns the scores, songDetails
\* and songAggregates of the first.
C14_RunsIdentical ==
    previous # <<>> =>
        /\ computed[1].scores = previous[1].scores
        /\ computed[1].songDetails = previous[1].songDetails
        /\ computed[1].songAggregates = previous[1].songAggregates

\* C15: for a dataset without setlist entries every show is in scores, in
\* order, with the rarity score MIN_SHOW_SCORE, and skipped is empty.
C15_EmptySetlistsScoreEveryShow ==
    (Scored /\ dataset.setlists = <<>>) =>
        /\ Outcome.skipped = <<>>
        /\ Len(Outcome.scores) = Len(dataset.shows)
        /\ \A i \in Indices(dataset.shows) :
              /\ Outcome.scores[i].showId = dataset.shows[i].show_id
              /\ Outcome.scores[i].rarityScore = MIN_SHOW_SCORE

\* Two shows and no entry have been scored.
C15_Witness ==
    /\ Scored
    /\ dataset.setlists = <<>>
    /\ Len(dataset.shows) = 2
    /\ Len(Outcome.scores) = 2

\* C16: when every entry has the same raw rarity every normalized value is
\* 1.0, and when every scored show has the same rarity score every
\* normalizedScore is 1.  The raw rarities of the entries are those of
\* songDetails when every entry has its own record there.
C16_FlatDistributionsAtMaximum ==
    Scored =>
        /\ (/\ Cardinality(DOMAIN Outcome.songDetails) = Len(dataset.setlists)
            /\ Cardinality({Outcome.songDetails[k].raw :
                               k \in DOMAIN Outcome.songDetails}) <= 1)
              => \A k \in DOMAIN Outcome.songDetails :
                    Outcome.songDetails[k].normalized = MAX_NORMALIZED_RARITY
        /\ Cardinality({Outcome.scores[i].rarityScore : i \in Indices(Outcome.scores)}) <= 1
              => \A i \in Indices(Outcome.scores) :
                    Outcome.scores[i].normalizedScore = Unit

\* Two shows with one entry each, of the same raw rarity, and so of the
\* same rarity score.
C16_Witness ==
    /\ Scored
    /\ Len(dataset.setlists) = 2
    /\ Len(Outcome.scores) = 2
    /\ Cardinality(DOMAIN Outcome.songDetails) = 2
    /\ Cardinality({Outcome.songDetails[k].raw : k \in DOMAIN Outcome.songDetails}) = 1
    /\ Outcome.scores[1].rarityScore = Outcome.scores[2].rarityScore
    /\ Outcome.scores[1].normalizedScore = Unit

\* C17: the song key of an entry is its song id when it has one, else its
\* slug, else its lowercased name, else a fallback; and the key resolved for
\* the entry's rarity is the key resolved before for its statistics, a key
\* of songAggregates.
C17_SongKeyPriorityAndStable ==
    Scored =>
        \A i \in Indices(dataset.setlists) :
            LET entry == dataset.setlists[i]
                key == Outcome.songDetails[createRarityEntryKey(entry, i - 1)].songKey
            IN  /\ entry.song_id # Null => key = IdKey(entry.song_id)
                /\ (entry.song_id = Null /\ entry.slug # NoText) => key = SlugKey(entry.slug)
                /\ (entry.song_id = Null /\ entry.slug = NoText /\ entry.songname # NoText)
                       => key = NameKey(toLowerCase(entry.songname))
                /\ key \in DOMAIN Outcome.songAggregates

\* ------------------------------------------------------------------------
\* Properties of the sync's progress events and of its caller
\* ------------------------------------------------------------------------
PhaseRank(phase) ==
    CASE phase = "shows" -> 1
      [] phase = "setlists" -> 2
      [] OTHER -> 3

Completes(events) == {i \in Indices(events) : events[i] = "complete"}

\* C18: the progress events of one call come in phase order, shows before
\* setlists before complete; a call that has resolved has emitted exactly
\* one complete event, its last event; a call that has rejected has emitted
\* none.
C18_ProgressInPhaseOrder ==
    /\ \A i, j \in Indices(progress) :
          i < j => PhaseRank(progress[i]) <= PhaseRank(progress[j])
    /\ Cardinality(Completes(progress)) <= 1
    /\ pc \in {"resolved", "saved"} => Completes(progress) = {Len(progress)}
    /\ pc \in {"rejected", "failed"} => Completes(progress) = {}

\* A call that fetched the setlists of three or more shows has resolved.
C18_Witness ==
    /\ pc = "resolved"
    /\ Len(newShowRecords) >= 3
    /\ Cardinality({i \in Indices(progress) : progress[i] = "setlists"})
           = Len(newShowRecords) + 2
    /\ progress[Len(progress)] = "complete"

\* C19: when the sync has rejected, also after the caller has handled the
\* rejection, the persisted cache and the in-memory dataset are what they
\* were when the call started.
C19_RejectedSyncWritesNothing ==
    pc \in {"rejected", "failed"} =>
        /\ persisted = persistedAtStart
        /\ existingShows = inputAtStart.shows
        /\ existingSetlists = inputAtStart.setlists

\* The caller has handled a sync that rejected after some setlists had
\* been fetched, and there was a persisted cache.
C19_Witness ==
    /\ pc = "failed"
    /\ fetchFailed
    /\ DOMAIN newEntriesByShow # {}
    /\ persisted # <<>>
    /\ Len(existingSetlists) > 0

\* ------------------------------------------------------------------------
\* Properties of getDatasetFromEnv
\* ------------------------------------------------------------------------
InvalidPayload(payload) == payload # NoPayload /\ ~JSONParse(payload[1]).ok

\* C20: every getDatasetFromEnv call made while ELGOOSE_DATASET_JSON holds
\* invalid JSON throws.
C20_InvalidPayloadAlwaysThrows ==
    (lastCall.outcome # "none" /\ InvalidPayload(lastCall.payload))
        => lastCall.outcome = "threw"

\* ------------------------------------------------------------------------
\* Properties of runCli
\* ------------------------------------------------------------------------
\* The loaded dataset has no shows array or no setlists array: the field is
\* missing or null, or the dataset itself is null.
LacksArray(loaded) ==
    /\ loaded.kind # "threw"
    /\ \/ loaded.shows.kind # "array"
       \/ loaded.setlists.kind # "array"

DateOfISO(text) ==
    LET days == {d \in (FIRST_PLAY_CUTOFF - 2)..(FIRST_PLAY_CUTOFF + 1) : toISOString(d) = text}
    IN  IF days = {} THEN NoDate ELSE CHOOSE d \in days : TRUE

Timeline == ShowsWithSetlistDates(dataset.shows, dataset.setlists, 1)
Aggregates == computed[1].songAggregates

\* The shows of the timeline at or after the date.
ShowsAtOrAfter(date) == Cardinality({i \in Indices(Timeline) : Timeline[i] >= date})

\* C22: for every song the denominator is max(showsSince(d), plays), where
\* d is the first-eligible date of the song or, when it has none, its
\* first-appearance date; and the percentage is plays / denominator.
C22_DenominatorSinceFirstDate ==
    computed # <<>> =>
        \A key \in DOMAIN Aggregates :
            LET song == Aggregates[key]
                d == DateOfISO(song.firstDate)
                remaining == IF d = NoDate THEN Len(Timeline) ELSE ShowsAtOrAfter(d)
            IN  /\ song.denominator = Max(remaining, song.plays)
                /\ song.percentage = (song.plays * Unit) \div song.denominator

\* ------------------------------------------------------------------------
\* Properties of the first-performance bonus
\* ------------------------------------------------------------------------
Details == computed[1].songDetails

\* The entries of the same song: those of the same song id, slug or name,
\* and the entry alone when it names neither a song nor a show.
SameSong(i) ==
    IF CallsRandom(dataset.setlists[i]) THEN {i}
    ELSE {j \in Indices(dataset.setlists) :
             /\ ~CallsRandom(dataset.setlists[j])
             /\ songKey(dataset.setlists[j], 0) = songKey(dataset.setlists[i], 0)}

SongDates(i) == {EntryDate(dataset.setlists[j], dataset.shows) : j \in SameSong(i)} \ {NoDate}
FirstEver(i) == Earliest(SongDates(i))
FirstEligible(i) == Earliest({d \in SongDates(i) : d >= FIRST_PLAY_CUTOFF})
FirstPlayDate(i) == IF FirstEligible(i) # NoDate THEN FirstEligible(i) ELSE FirstEver(i)

\* The record of songDetails is the record of entry i: no later entry has
\* taken its key.
HasDetail(i) ==
    \A j \in Indices(dataset.setlists) :
        createRarityEntryKey(dataset.setlists[j], j - 1)
            = createRarityEntryKey(dataset.setlists[i], i - 1) => j <= i
DetailOf(i) == Details[createRarityEntryKey(dataset.setlists[i], i - 1)]

\* The raw rarity without the bonus: W_F * base * coverFactor.
Unbonused(detail) ==
    LET usage == IF detail.songKey \in DOMAIN Aggregates
                 THEN [plays |-> Aggregates[detail.songKey].plays,
                       denominator |-> Aggregates[detail.songKey].denominator]
                 ELSE [plays |-> 0, denominator |-> 0]
    IN  (BaseRarity(usage) * CoverFactor2(detail.isCover)) \div 2

C25_OneDetailPerEntry ==
    (computed # <<>> /\ dataset.setlists # <<>>) =>
        /\ Cardinality(DOMAIN Details) = Len(dataset.setlists)
        /\ \A i \in Indices(dataset.setlists) :
              /\ createRarityEntryKey(dataset.setlists[i], i - 1) \in DOMAIN Details
              /\ DetailOf(i).showId = dataset.setlists[i].show_id

\* ------------------------------------------------------------------------
\* Properties of showsSince
\* ------------------------------------------------------------------------
\* C24: on an ascending timeline showsSince returns the number of entries
\* at or after the date, and the length of the timeline without a date.
C24_ShowsSinceCountsFromDate ==
    since # <<>> =>
        since[1].returned =
            IF since[1].date = NoDate THEN Len(timeline)
            ELSE Cardinality({i \in Indices(timeline) : timeline[i] >= since[1].date})

\* Three shows, two of them on the day asked for and one before it.
C24_Witness ==
    /\ since # <<>>
    /\ Len(timeline) = 3
    /\ since[1].date # NoDate
    /\ timeline[1] < since[1].date
    /\ timeline[2] = since[1].date
    /\ timeline[3] = since[1].date
    /\ since[1].returned = 2

\* ------------------------------------------------------------------------
\* Properties of the worker pool
\* ------------------------------------------------------------------------
Candidates == 1..Len(newShowRecords)
ClaimsOf(k) == Cardinality({i \in 1..Len(claimed) : claimed[i] = k})
WorkersDone == newShowRecords # <<>> /\ AllWorkersReturned

\* C26: every index of the candidate list is claimed by exactly one worker.
\* No index is ever claimed twice, and once the workers have returned every
\* index has been claimed.
C26_EachCandidateClaimedOnce ==
    /\ \A i \in 1..Len(claimed) : claimed[i] \in Candidates
    /\ \A k \in Candidates : ClaimsOf(k) <= 1
    /\ WorkersDone => \A k \in Candidates : ClaimsOf(k) = 1

\* More candidates than workers, the first fetch to settle was not the
\* first one started, and the workers have returned.
C26_Witness ==
    /\ WorkersDone
    /\ Len(newShowRecords) > SETLIST_FETCH_CONCURRENCY
    /\ firstCompleted > 1
    /\ \A k \in Candidates : ClaimsOf(k) = 1

\* The show ids of the cache the call started from, and the show ids a
\* setlist fetch was issued for.
CachedIds == NumericIds(inputAtStart.shows)
FetchedIds == {newShowRecords[claimed[i]].id : i \in 1..Len(claimed)}

\* C27: a setlist fetch is issued only for show ids the cached shows do not
\* hold; when the remote list holds no such id, no setlist fetch is issued
\* and the call returns addedShowCount = 0 and addedSetlistCount = 0.
C27_FetchOnlyNewShows ==
    /\ FetchedIds \cap CachedIds = {}
    /\ (pc # "idle" /\ NumericIds(remoteShows) \subseteq CachedIds) =>
           /\ claimed = <<>>
           /\ result.status = "resolved" =>
                  /\ result.addedShowCount = 0
                  /\ result.addedSetlistCount = 0

\* The remote list holds shows, all of them cached, and the call has
\* resolved without a setlist fetch.
C27_Witness ==
    /\ pc = "resolved"
    /\ remoteShows # <<>>
    /\ NumericIds(remoteShows) # {}
    /\ NumericIds(remoteShows) \subseteq CachedIds
    /\ claimed = <<>>
    /\ result.addedShowCount = 0
    /\ result.addedSetlistCount = 0

\* C28: on a successful sync addedSetlistCount is the number of entries by
\* which the returned setlists are longer than the cached ones, and
\* addedShowCount is the number of distinct show ids of the returned shows
\* that the cached shows do not hold.
C28_CountsMatchReturnedDataset ==
    pc = "resolved" =>
        /\ result.addedSetlistCount = Len(Returned.setlists) - Len(inputAtStart.setlists)
        /\ result.addedShowCount = Cardinality(NumericIds(Returned.shows) \ CachedIds)

\* The call has settled after its workers were started.
SettledAfterFetching == Settled /\ newShowRecords # <<>>

\* C29: a sync with candidates settles only after the setlist fetch of
\* every candidate has been started and has settled, a failed fetch
\* included; and when every fetch settles, the sync resolves or rejects.
C29_SettlesAfterEveryFetch ==
    /\ [](SettledAfterFetching =>
              /\ {claimed[i] : i \in 1..Len(claimed)} = Candidates
              /\ settled = Candidates
              /\ completed = Len(newShowRecords))
    /\ (pc = "fetchingSetlists") ~> (pc \in {"resolved", "rejected"})

\* The first fetch to settle failed, it was the only one to fail, there are
\* more candidates than workers, and the call rejected after all of them
\* had been fetched.
C29_Witness ==
    /\ pc = "rejected"
    /\ Len(newShowRecords) > SETLIST_FETCH_CONCURRENCY
    /\ Len(errors) = 1
    /\ firstCompleted > 0
    /\ errors[1] = newShowRecords[firstCompleted].id
    /\ settled = Candidates

\* ------------------------------------------------------------------------
\* Properties of Clear Cache
\* ------------------------------------------------------------------------
\* C30: once Clear Cache has completed, and until a load is started, the
\* persisted dataset is absent and the in-memory dataset is null, whatever
\* a sync that was in flight at the click does.
C30_ClearedStaysCleared ==
    clear = "done" => (persisted = <<>> /\ appDataset = <<>>)

====
